---- MODULE Spec2Model ----
(***************************************************************************)
(* A model of the NewsBiasDetector browser extension:                      *)
(*   - the service worker's handleAnalysis / callGeminiAPI / saveToHistory *)
(*     and the function extractArticleContent injects into the page        *)
(*     (src/bias-detector/service-worker.js),                              *)
(*   - the popup's click handlers, storage and messaging callbacks and     *)
(*     timers (src/bias-detector/popup.js).                                *)
(*                                                                         *)
(* Text is a sequence of atoms.  An atom is one character that the code's  *)
(* regular expressions or the JSON grammar single out ({ } [ ] , : " space *)
(* newline), the three-backtick fence marker, or a maximal run of other    *)
(* characters (a word, a number).  The replies drawn below never put two   *)
(* word atoms next to each other and hold no backslash.                    *)
(***************************************************************************)
EXTENDS Integers, Sequences, FiniteSets, TLC

VARIABLES
  analysisHistory,  \* chrome.storage.local 'analysisHistory' (Unset or a sequence)
  geminiApiKey,     \* chrome.storage.sync 'geminiApiKey' ("" when none is stored)
  run,              \* per handleAnalysis invocation: its position and locals
  clock,            \* Date.now(), a logical clock
  started,          \* how many analyzeCredibility requests were received
  clears,           \* how many confirmed history clears were executed
  appended,         \* log: the initial entries, and every entry pushed, in order
  popup,            \* the popup's DOM state and the position of its handler
  prior,            \* per click-handler invocation: the score panel as it was at the click
  api,              \* one callGeminiAPI call after its fetch, stage by stage
  page              \* one run of the function extractArticleContent injects, and its document

vars == <<analysisHistory, geminiApiKey, run, clock, started, clears, appended,
          popup, prior, api, page>>

----------------------------------------------------------------------------
(* Text helpers *)

Quote == "\""
NL == "\n"
SP == " "
\* the three-backtick markdown fence marker
Fence == "<fence>"
Whitespace == {SP, NL}

Drop(s, n) == SubSeq(s, n + 1, Len(s))

Last(s) == s[Len(s)]

RECURSIVE TrimStart(_)
TrimStart(s) ==
  IF s # <<>> /\ s[1] \in Whitespace THEN TrimStart(Tail(s)) ELSE s

RECURSIVE TrimEnd(_)
TrimEnd(s) ==
  IF s # <<>> /\ Last(s) \in Whitespace
  THEN TrimEnd(SubSeq(s, 1, Len(s) - 1))
  ELSE s

\* String.prototype.trim
Trim(s) == TrimEnd(TrimStart(s))

Count(s, a) == Cardinality({i \in 1..Len(s) : s[i] = a})

RECURSIVE Repeat(_, _)
Repeat(a, n) == IF n <= 0 THEN <<>> ELSE <<a>> \o Repeat(a, n - 1)

\* Index of the first a in s, 0 when there is none
IndexOf(s, a) ==
  IF \E i \in 1..Len(s) : s[i] = a
  THEN CHOOSE i \in 1..Len(s) : s[i] = a /\ \A j \in 1..(i - 1) : s[j] # a
  ELSE 0

\* Index of the last a in s, 0 when there is none
LastIndexOf(s, a) ==
  IF \E i \in 1..Len(s) : s[i] = a
  THEN CHOOSE i \in 1..Len(s) : s[i] = a /\ \A j \in (i + 1)..Len(s) : s[j] # a
  ELSE 0

----------------------------------------------------------------------------
(* Stages 1-4 of the recovery in callGeminiAPI *)

\* responseText.replace(/<fence>json\n?|\n?<fence>/g, '')
\* The matches are found left to right; at a position the first alternative
\* is tried first
FenceMatchAt(s, i) ==
  \/ s[i] = Fence
  \/ s[i] = NL /\ i < Len(s) /\ s[i + 1] = Fence

FenceMatchLen(s, i) ==
  IF s[i] = Fence /\ i < Len(s) /\ s[i + 1] = "json"
  THEN IF i + 1 < Len(s) /\ s[i + 2] = NL THEN 3 ELSE 2
  ELSE IF s[i] = NL THEN 2
  ELSE 1

RECURSIVE RemoveFences(_)
RemoveFences(s) ==
  IF \E i \in 1..Len(s) : FenceMatchAt(s, i)
  THEN LET i == CHOOSE i \in 1..Len(s) :
                  FenceMatchAt(s, i) /\ \A j \in 1..(i - 1) : ~FenceMatchAt(s, j)
       IN  SubSeq(s, 1, i - 1) \o RemoveFences(Drop(s, i - 1 + FenceMatchLen(s, i)))
  ELSE s

StripFences(s) == Trim(RemoveFences(s))

\* cleanedText.match(/\{[\s\S]*\}/): a '{' with a later '}'
HasJsonSpan(s) ==
  IndexOf(s, "{") > 0 /\ LastIndexOf(s, "}") > IndexOf(s, "{")

IsolateJsonBlank(s) ==
  IF HasJsonSpan(s)
  THEN SubSeq(s, IndexOf(s, "{"), LastIndexOf(s, "}"))
  ELSE <<>>

\* if (jsonMatch) cleanedText = jsonMatch[0]; otherwise cleanedText is kept
IsolateJson(s) ==
  IF HasJsonSpan(s)
  THEN SubSeq(s, IndexOf(s, "{"), LastIndexOf(s, "}"))
  ELSE s

\* match.replace(/\n/g, ' ').replace(/\s+/g, ' ')
RECURSIVE CollapseWhitespace(_)
CollapseWhitespace(s) ==
  IF s = <<>> THEN <<>>
  ELSE IF s[1] \in Whitespace
    THEN <<SP>> \o CollapseWhitespace(TrimStart(s))
  ELSE <<s[1]>> \o CollapseWhitespace(Tail(s))

\* cleanedText.replace(/"[^"]*"/g, ...): each quote-to-next-quote span
RECURSIVE NormalizeStrings(_)
NormalizeStrings(s) ==
  LET i == IndexOf(s, Quote)
      j == IF i = 0 THEN 0 ELSE IndexOf(Drop(s, i), Quote)
  IN  IF j = 0 THEN s
      ELSE SubSeq(s, 1, i) \o CollapseWhitespace(SubSeq(s, i + 1, i + j - 1))
             \o <<Quote>> \o NormalizeStrings(Drop(s, i + j))

\* counts of { } [ ] over the text; ']' appended before '}'
RepairBrackets(s) ==
  LET openBraces == Count(s, "{")
      closeBraces == Count(s, "}")
      openBrackets == Count(s, "[")
      closeBrackets == Count(s, "]")
  IN  s \o Repeat("]", openBrackets - closeBrackets)
        \o Repeat("}", openBraces - closeBraces)

----------------------------------------------------------------------------
(* JSON values and JSON.parse.  A value is tagged by its type; an object   *)
(* is the sequence of its <<key, value>> members in source order, a key    *)
(* and a string's content are sequences of atoms.                          *)

Undefined == [t |-> "undefined"]
JNull == [t |-> "null"]
JNum(n) == [t |-> "num", n |-> n]
JStr(s) == [t |-> "str", s |-> s]
JArr(a) == [t |-> "arr", a |-> a]
JObj(m) == [t |-> "obj", m |-> m]

\* The number atoms of the replies and their values
NumberAtoms == {"0", "40", "50", "75", "82", "90"}

NumberValue(a) ==
  CASE a = "0" -> 0
    [] a = "40" -> 40
    [] a = "50" -> 50
    [] a = "75" -> 75
    [] a = "82" -> 82
    [] a = "90" -> 90

NumberAtom(n) == CHOOSE a \in NumberAtoms : NumberValue(a) = n

ParseFail == [ok |-> FALSE]
Parsed(v, rest) == [ok |-> TRUE, v |-> v, rest |-> rest]

\* After the opening quote: up to the next quote; a raw newline is a control
\* character, which JSON.parse rejects inside a string
ParseString(s) ==
  LET j == IndexOf(s, Quote)
  IN  IF j = 0 THEN ParseFail
      ELSE IF \E i \in 1..(j - 1) : s[i] = NL THEN ParseFail
      ELSE Parsed(JStr(SubSeq(s, 1, j - 1)), Drop(s, j))

RECURSIVE ParseValue(_), ParseMembers(_, _), ParseElements(_, _)

ParseValue(s) ==
  LET t == TrimStart(s)
  IN  IF t = <<>> THEN ParseFail
      ELSE IF t[1] = "{" THEN
             IF TrimStart(Tail(t)) # <<>> /\ TrimStart(Tail(t))[1] = "}"
             THEN Parsed(JObj(<<>>), Tail(TrimStart(Tail(t))))
             ELSE ParseMembers(Tail(t), <<>>)
      ELSE IF t[1] = "[" THEN
             IF TrimStart(Tail(t)) # <<>> /\ TrimStart(Tail(t))[1] = "]"
             THEN Parsed(JArr(<<>>), Tail(TrimStart(Tail(t))))
             ELSE ParseElements(Tail(t), <<>>)
      ELSE IF t[1] = Quote THEN ParseString(Tail(t))
      ELSE IF t[1] \in NumberAtoms THEN Parsed(JNum(NumberValue(t[1])), Tail(t))
      ELSE IF t[1] = "null" THEN Parsed(JNull, Tail(t))
      ELSE IF t[1] = "true" THEN Parsed([t |-> "bool", b |-> TRUE], Tail(t))
      ELSE IF t[1] = "false" THEN Parsed([t |-> "bool", b |-> FALSE], Tail(t))
      ELSE ParseFail

\* "key" : value, then ',' and another member, or '}'
ParseMembers(s, acc) ==
  LET t == TrimStart(s)
  IN  IF t = <<>> \/ t[1] # Quote THEN ParseFail
      ELSE LET k == ParseString(Tail(t))
           IN  IF ~k.ok THEN ParseFail
               ELSE LET u == TrimStart(k.rest)
                    IN  IF u = <<>> \/ u[1] # ":" THEN ParseFail
                        ELSE LET v == ParseValue(Tail(u))
                             IN  IF ~v.ok THEN ParseFail
                                 ELSE LET w == TrimStart(v.rest)
                                          m == Append(acc, <<k.v.s, v.v>>)
                                      IN  IF w = <<>> THEN ParseFail
                                          ELSE IF w[1] = "," THEN ParseMembers(Tail(w), m)
                                          ELSE IF w[1] = "}" THEN Parsed(JObj(m), Tail(w))
                                          ELSE ParseFail

\* value, then ',' and another element, or ']'
ParseElements(s, acc) ==
  LET v == ParseValue(s)
  IN  IF ~v.ok THEN ParseFail
      ELSE LET w == TrimStart(v.rest)
               e == Append(acc, v.v)
           IN  IF w = <<>> THEN ParseFail
               ELSE IF w[1] = "," THEN ParseElements(Tail(w), e)
               ELSE IF w[1] = "]" THEN Parsed(JArr(e), Tail(w))
               ELSE ParseFail

\* JSON.parse(cleanedText): one value, nothing but whitespace around it
JsonParse(s) ==
  LET r == ParseValue(s)
  IN  IF r.ok /\ TrimStart(r.rest) = <<>> THEN [ok |-> TRUE, v |-> r.v] ELSE ParseFail

\* Property read: the last member of that key wins; undefined when there is
\* none or when the value is no object
Get(v, key) ==
  IF v.t = "obj" /\ \E i \in 1..Len(v.m) : v.m[i][1] = key
  THEN LET i == CHOOSE i \in 1..Len(v.m) :
                  v.m[i][1] = key /\ \A j \in (i + 1)..Len(v.m) : v.m[j][1] # key
       IN  v.m[i][2]
  ELSE Undefined

Has(v, key) == v.t = "obj" /\ \E i \in 1..Len(v.m) : v.m[i][1] = key

\* Property write on an object
Put(v, key, x) ==
  IF Has(v, key)
  THEN JObj([i \in 1..Len(v.m) |-> IF v.m[i][1] = key THEN <<key, x>> ELSE v.m[i]])
  ELSE JObj(Append(v.m, <<key, x>>))

\* JavaScript truthiness, as used by ! and ||
Falsy(v) ==
  \/ v.t \in {"undefined", "null"}
  \/ v.t = "bool" /\ ~v.b
  \/ v.t = "num" /\ v.n = 0
  \/ v.t = "str" /\ v.s = <<>>

Or(v, default) == IF Falsy(v) THEN default ELSE v

K_score == <<"credibility_score">>
K_summary == <<"reasoning_summary">>
K_confidence == <<"confidence">>
K_leaning == <<"political_leaning">>
K_corroboration == <<"corroboration_analysis">>

DefaultConfidence == 75

\* Stage 1-5: the inner try block; the parsed value or the parse failure
RecoverJson(responseText) ==
  JsonParse(RepairBrackets(NormalizeStrings(IsolateJson(StripFences(responseText)))))

\* if (!analysisData.credibility_score || !analysisData.reasoning_summary)
MissingRequired(analysisData) ==
  Falsy(Get(analysisData, K_score)) \/ Falsy(Get(analysisData, K_summary))

\* analysisData.x = analysisData.x || default, for the three optional fields
ApplyDefaults(analysisData) ==
  LET a == Put(analysisData, K_confidence,
               Or(Get(analysisData, K_confidence), JNum(DefaultConfidence)))
      b == Put(a, K_leaning, Or(Get(a, K_leaning), JStr(<<"Neutral">>)))
  IN  Put(b, K_corroboration, Or(Get(b, K_corroboration), JArr(<<>>)))

Failure(kind) == [kind |-> kind]
Record(data) == [kind |-> "ok", data |-> data]

\* The recovery and validation of callGeminiAPI on the reply text.  The
\* error kinds name the thrown messages:
\*   MalformedJson         'Failed to parse API response as JSON: ...'
\*   MissingRequiredField  'API response missing required fields (...)'
\*   TypeError             a property read of null or undefined
Recover(responseText) ==
  IF responseText.t = "undefined" THEN Failure("TypeError")
  ELSE LET p == RecoverJson(responseText.s)
       IN  IF ~p.ok THEN Failure("MalformedJson")
           ELSE IF p.v.t = "null" THEN Failure("TypeError")
           ELSE IF MissingRequired(p.v) THEN Failure("MissingRequiredField")
           ELSE Record(ApplyDefaults(p.v))

----------------------------------------------------------------------------
(* The response of the assessment service, as callGeminiAPI reads it *)

\* response.ok, errorData.error?.message ("" when absent), response.statusText,
\* data.promptFeedback, data.candidates, candidates[0].finishReason,
\* candidates[0].content, content.parts[0].text
HttpResponse(ok, message, feedback, candidates, finishReason, content, text) ==
  [ok |-> ok, message |-> message, statusText |-> "Bad Request",
   promptFeedback |-> feedback, candidates |-> candidates,
   finishReason |-> finishReason, content |-> content, text |-> text]

\*   promptFeedback  "absent", "noBlockReason", "blockReason"
\*   candidates      "absent", "empty", "one"
\*   finishReason    "absent" or the reason
\*   content         "absent", "noParts" (content without parts), "emptyParts"
\*                   (parts = []), "noText" (parts[0] without text), "text"

EnvelopeErrorNoTokenCheck(http) ==
  IF ~http.ok THEN "RequestFailed"
  ELSE IF http.promptFeedback = "blockReason" THEN "ContentBlocked"
  ELSE IF http.candidates \in {"absent", "empty"} THEN "NoResponse"
  ELSE IF http.finishReason = "SAFETY" THEN "ContentBlocked"
  ELSE IF http.content \in {"absent", "noParts"} THEN "InvalidUpstreamShape"
  ELSE IF http.content = "emptyParts" THEN "TypeError"
  ELSE "none"

\* The checks between the fetch and the recovery, in the code's order; the
\* kinds name the thrown messages:
\*   RequestFailed         'Gemini API error: ...'
\*   ContentBlocked        'Content blocked by safety filters: ...',
\*                         'Response blocked by safety filters'
\*   NoResponse            'No response generated ...'
\*   TruncatedResponse     'Response incomplete - hit token limit. ...'
\*   InvalidUpstreamShape  'Invalid response structure from Gemini API ...'
\*   TypeError             parts[0] of an empty parts list is undefined
\* A finish reason other than STOP, SAFETY and MAX_TOKENS is only logged.
EnvelopeError(http) ==
  IF ~http.ok THEN "RequestFailed"
  ELSE IF http.promptFeedback = "blockReason" THEN "ContentBlocked"
  ELSE IF http.candidates \in {"absent", "empty"} THEN "NoResponse"
  ELSE IF http.finishReason = "SAFETY" THEN "ContentBlocked"
  ELSE IF http.finishReason = "MAX_TOKENS" THEN "TruncatedResponse"
  ELSE IF http.content \in {"absent", "noParts"} THEN "InvalidUpstreamShape"
  ELSE IF http.content = "emptyParts" THEN "TypeError"
  ELSE "none"

\* errorData.error?.message || response.statusText
RequestFailure(http) ==
  [kind |-> "RequestFailed",
   message |-> IF http.message # "" THEN http.message ELSE http.statusText]

EnvelopeFailure(http) ==
  IF EnvelopeError(http) = "RequestFailed"
  THEN RequestFailure(http)
  ELSE Failure(EnvelopeError(http))

\* candidate.content.parts[0].text
ResponseText(http) ==
  IF http.content = "text" THEN JStr(http.text) ELSE Undefined

\* callGeminiAPI from the arrival of the response: what it returns (kind
\* "ok") or throws
CallGeminiAPI(http) ==
  IF EnvelopeError(http) # "none"
  THEN EnvelopeFailure(http)
  ELSE Recover(ResponseText(http))

----------------------------------------------------------------------------
(* The replies the model draws: an assessment object written out as JSON,  *)
(* optionally cut short at its end, preceded by prose, followed by prose   *)
(* or fenced; and a few replies that hold no object.                       *)

\* How many trailing atoms a truncated reply may have lost
MaxCut == 2

RECURSIVE Serialize(_), SerializeMembers(_), SerializeElements(_)

Serialize(v) ==
  CASE v.t = "num" -> <<NumberAtom(v.n)>>
    [] v.t = "str" -> <<Quote>> \o v.s \o <<Quote>>
    [] v.t = "null" -> <<"null">>
    [] v.t = "arr" -> <<"[">> \o SerializeElements(v.a) \o <<"]">>
    [] v.t = "obj" -> <<"{">> \o SerializeMembers(v.m) \o <<"}">>

SerializeMembers(m) ==
  IF m = <<>> THEN <<>>
  ELSE <<Quote>> \o m[1][1] \o <<Quote, ":", SP>> \o Serialize(m[1][2])
         \o (IF Len(m) > 1 THEN <<",", SP>> \o SerializeMembers(Tail(m)) ELSE <<>>)

SerializeElements(a) ==
  IF a = <<>> THEN <<>>
  ELSE Serialize(a[1])
         \o (IF Len(a) > 1 THEN <<",", SP>> \o SerializeElements(Tail(a)) ELSE <<>>)

Member(key, v) == IF v.t = "undefined" THEN <<>> ELSE << <<key, v>> >>

MakeObject(score, summary, confidence, leaning, corroboration) ==
  JObj(Member(K_score, score) \o Member(K_summary, summary)
         \o Member(K_confidence, confidence) \o Member(K_leaning, leaning)
         \o Member(K_corroboration, corroboration))

Source1 ==
  JObj(<< << <<"title">>, JStr(<<"Reuters", SP, "report">>) >>,
          << <<"source_url">>, JStr(<<"reuters.example">>) >>,
          << <<"corroboration_score">>, JNum(90) >> >>)

\* an entry the service sent without url and score
Source2 == JObj(<< << <<"title">>, JStr(<<"Blog">>) >> >>)

ScoreOptions == <<Undefined, JNum(0), JNum(40), JNum(82)>>
SummaryOptions ==
  <<Undefined, JStr(<<>>), JStr(<<"Thin", SP, "sourcing">>),
    JStr(<<"Well-sourced", ",", NL, "balanced">>)>>
ConfidenceOptions == <<Undefined, JNum(0), JNum(90)>>
LeaningOptions == <<Undefined, Undefined, JStr(<<"Left">>)>>
CorroborationOptions == <<Undefined, JArr(<<>>), JArr(<<Source1, Source2>>)>>

ProsePrefix == <<"Sure", ",", SP, "here", SP, "you", SP, "go", ":", SP>>
ProseSuffix == <<SP, "Hope", SP, "this", SP, "helps">>

\* The reply text described by d
ReplyText(d) ==
  IF d.kind = "raw" THEN d.text
  ELSE LET whole == Serialize(d.obj)
           body == SubSeq(whole, 1, Len(whole) - d.cut)
           wrapped ==
             CASE d.wrap = "plain" -> body
               [] d.wrap = "fenced" -> <<Fence, "json", NL>> \o body \o <<NL, Fence>>
               [] d.wrap = "bareFence" -> <<Fence, NL>> \o body \o <<NL, Fence>>
               [] d.wrap = "suffix" -> body \o ProseSuffix
       IN  (IF d.prose THEN ProsePrefix ELSE <<>>) \o wrapped

ObjectReplies ==
  {[kind |-> "object",
    obj |-> MakeObject(ScoreOptions[s], SummaryOptions[m], ConfidenceOptions[o],
                       LeaningOptions[o], CorroborationOptions[c]),
    cut |-> cut, prose |-> prose, wrap |-> wrap] :
     s \in 1..4, m \in 1..4, o \in 1..3, c \in 1..3,
     cut \in 0..MaxCut, prose \in BOOLEAN, wrap \in {"plain", "fenced", "bareFence", "suffix"}}

RawReplies ==
  {[kind |-> "raw", text |-> text] :
     text \in {<<>>,
               <<"I", SP, "cannot", SP, "analyze", SP, "this", SP, "page">>,
               <<"null">>,
               <<"[", "]">>,
               <<"}", SP, "oops", SP, "{">>,
               <<Quote, "just", SP, "text", Quote>>}}

Replies == ObjectReplies \cup RawReplies

\* The assessment of the documented truncation example
ExampleObject ==
  MakeObject(JNum(40), JStr(<<"Thin", SP, "sourcing">>), Undefined, Undefined, Undefined)

GoodResponse(text) == HttpResponse(TRUE, "", "absent", "one", "STOP", "text", text)

\* Every envelope shape, around the example reply
Envelopes ==
  {HttpResponse(ok, message, f, c, r, k, Serialize(ExampleObject)) :
     ok \in BOOLEAN, message \in {"", "API key not valid"},
     f \in {"absent", "noBlockReason", "blockReason"},
     c \in {"absent", "empty", "one"},
     r \in {"absent", "STOP", "SAFETY", "MAX_TOKENS", "RECITATION"},
     k \in {"absent", "noParts", "emptyParts", "noText", "text"}}

----------------------------------------------------------------------------
(* callGeminiAPI after its fetch, one stage per step                       *)

ApiCall(reply, http) ==
  [pc |-> "response", reply |-> reply, http |-> http, responseText |-> Undefined,
   cleanedText |-> <<>>, analysisData |-> Undefined, result |-> Failure("none")]

ApiThrow(failure) == api' = [api EXCEPT !.pc = "done", !.result = failure]

\* response.ok, promptFeedback, candidates, finishReason, content checks,
\* then responseText = candidate.content.parts[0].text
ApiCheckEnvelope ==
  /\ api.pc = "response"
  /\ IF EnvelopeError(api.http) # "none"
     THEN ApiThrow(EnvelopeFailure(api.http))
     ELSE api' = [api EXCEPT !.pc = "strip", !.responseText = ResponseText(api.http)]
  /\ UNCHANGED <<page, analysisHistory, geminiApiKey, run, clock, started, clears,
                 appended, popup, prior>>

\* Stage 1; on an undefined text the replace call throws, and so does the
\* substring call of the catch block
ApiStripFences ==
  /\ api.pc = "strip"
  /\ IF api.responseText.t = "undefined"
     THEN ApiThrow(Failure("TypeError"))
     ELSE api' = [api EXCEPT !.pc = "isolate",
                             !.cleanedText = StripFences(api.responseText.s)]
  /\ UNCHANGED <<page, analysisHistory, geminiApiKey, run, clock, started, clears,
                 appended, popup, prior>>

\* Stage 2
ApiIsolate ==
  /\ api.pc = "isolate"
  /\ api' = [api EXCEPT !.pc = "normalize", !.cleanedText = IsolateJson(api.cleanedText)]
  /\ UNCHANGED <<page, analysisHistory, geminiApiKey, run, clock, started, clears,
                 appended, popup, prior>>

\* Stage 3
ApiNormalize ==
  /\ api.pc = "normalize"
  /\ api' = [api EXCEPT !.pc = "repair", !.cleanedText = NormalizeStrings(api.cleanedText)]
  /\ UNCHANGED <<page, analysisHistory, geminiApiKey, run, clock, started, clears,
                 appended, popup, prior>>

\* Stage 4
ApiRepair ==
  /\ api.pc = "repair"
  /\ api' = [api EXCEPT !.pc = "parse", !.cleanedText = RepairBrackets(api.cleanedText)]
  /\ UNCHANGED <<page, analysisHistory, geminiApiKey, run, clock, started, clears,
                 appended, popup, prior>>

\* Stage 5
ApiParse ==
  /\ api.pc = "parse"
  /\ LET p == JsonParse(api.cleanedText)
     IN  IF p.ok
         THEN api' = [api EXCEPT !.pc = "validate", !.analysisData = p.v]
         ELSE ApiThrow(Failure("MalformedJson"))
  /\ UNCHANGED <<page, analysisHistory, geminiApiKey, run, clock, started, clears,
                 appended, popup, prior>>

\* Stage 6, the required fields
ApiValidate ==
  /\ api.pc = "validate"
  /\ IF api.analysisData.t = "null" THEN ApiThrow(Failure("TypeError"))
     ELSE IF MissingRequired(api.analysisData)
       THEN ApiThrow(Failure("MissingRequiredField"))
     ELSE api' = [api EXCEPT !.pc = "defaults"]
  /\ UNCHANGED <<page, analysisHistory, geminiApiKey, run, clock, started, clears,
                 appended, popup, prior>>

\* Stage 6, the defaults, and the return
ApiDefaults ==
  /\ api.pc = "defaults"
  /\ api' = [api EXCEPT !.pc = "done",
                        !.analysisData = ApplyDefaults(api.analysisData),
                        !.result = Record(ApplyDefaults(api.analysisData))]
  /\ UNCHANGED <<page, analysisHistory, geminiApiKey, run, clock, started, clears,
                 appended, popup, prior>>

InitOthers ==
  /\ analysisHistory = <<>>
  /\ geminiApiKey = ""
  /\ run = <<>>
  /\ clock = 0
  /\ started = 0
  /\ clears = 0
  /\ appended = <<>>
  /\ popup = <<>>
  /\ prior = <<>>

\* Any reply in a well-formed envelope, or the example reply in any envelope
InitApi ==
  /\ InitOthers
  /\ page = <<>>
  /\ \/ \E d \in Replies : api = ApiCall(d, GoodResponse(ReplyText(d)))
     \/ \E h \in Envelopes :
          api = ApiCall([kind |-> "object", obj |-> ExampleObject, cut |-> 0,
                         prose |-> FALSE, wrap |-> "plain"], h)

NextApi ==
  \/ ApiCheckEnvelope
  \/ ApiStripFences
  \/ ApiIsolate
  \/ ApiNormalize
  \/ ApiRepair
  \/ ApiParse
  \/ ApiValidate
  \/ ApiDefaults

SpecApi == InitApi /\ [][NextApi]_vars

----------------------------------------------------------------------------
(* Properties of callGeminiAPI, checked under SpecApi *)

ApiDone == api.pc = "done"

\* The value stage 5 parsed, before the defaults were written into it
ParsedReply == RecoverJson(api.responseText.s).v

\* C6: schema validation fails with MissingRequiredField exactly when
\* credibility_score or reasoning_summary is absent from the parsed object; in
\* particular an object with an integer score (0 included) and a non-empty
\* summary yields a record.
C6_FailsExactlyWhenAbsent ==
  (ApiDone /\ api.analysisData.t = "obj") =>
    /\ (api.result.kind = "MissingRequiredField")
         <=> (~Has(api.analysisData, K_score) \/ ~Has(api.analysisData, K_summary))
    /\ ( /\ Get(api.analysisData, K_score).t = "num"
         /\ Get(api.analysisData, K_summary).t = "str"
         /\ Get(api.analysisData, K_summary).s # <<>> )
         => api.result.kind = "ok"

\* C7: in the returned record a field is defaulted only when the reply
\* omitted it (confidence 75, political_leaning Neutral, corroboration_analysis
\* empty); a field the reply gave keeps the reply's value, 0 included, and the
\* two required fields always do.
C7_DefaultsOnlyForAbsent ==
  (ApiDone /\ api.result.kind = "ok") =>
    LET rec == api.result.data
    IN  /\ Get(rec, K_confidence) =
             (IF Has(ParsedReply, K_confidence)
              THEN Get(ParsedReply, K_confidence) ELSE JNum(75))
        /\ Get(rec, K_leaning) =
             (IF Has(ParsedReply, K_leaning)
              THEN Get(ParsedReply, K_leaning) ELSE JStr(<<"Neutral">>))
        /\ Get(rec, K_corroboration) =
             (IF Has(ParsedReply, K_corroboration)
              THEN Get(ParsedReply, K_corroboration) ELSE JArr(<<>>))
        /\ Get(rec, K_score) = Get(ParsedReply, K_score)
        /\ Get(rec, K_summary) = Get(ParsedReply, K_summary)

\* The reply is an assessment object that lost exactly its final closing
\* character, with or without prose in front
TruncatedByOne ==
  /\ api.reply.kind = "object"
  /\ api.reply.cut = 1
  /\ api.reply.wrap = "plain"
  /\ api.http = GoodResponse(ReplyText(api.reply))

CompleteReply == ReplyText([api.reply EXCEPT !.cut = 0])

\* C8: a reply that is a valid assessment object without its final closing
\* character, optionally preceded by prose, is repaired: stages 1-5 parse it
\* to the same object as the complete reply.
C8_TruncationRepaired ==
  TruncatedByOne =>
    /\ api.pc = "validate" => api.analysisData = RecoverJson(CompleteReply).v
    /\ ApiDone => api.result.kind # "MalformedJson"

\* The first candidate's finish reason
FinishOf(http) == IF http.candidates = "one" THEN http.finishReason ELSE "absent"

\* The conditions of the claim, in the claim's order
ClaimedKind(http) ==
  IF ~http.ok THEN "RequestFailed"
  ELSE IF http.promptFeedback = "blockReason" \/ FinishOf(http) = "SAFETY"
    THEN "ContentBlocked"
  ELSE IF http.candidates # "one" THEN "NoResponse"
  ELSE IF FinishOf(http) = "MAX_TOKENS" THEN "TruncatedResponse"
  ELSE IF http.content \in {"absent", "noParts"} THEN "InvalidUpstreamShape"
  ELSE "none"

\* The envelope checks passed and the reply text goes to the recovery
HandedToRecovery == api.pc = "strip"

NoSpanReply ==
  api.responseText.t = "str" /\ ~HasJsonSpan(StripFences(api.responseText.s))

\* C10 as stated: a reply with no {...} span fails with NoJsonFound.
C10_FailsWithNoJsonFound ==
  (ApiDone /\ NoSpanReply) => api.result.kind = "NoJsonFound"

\* C10 amended: a reply with no {...} span raises no error at the isolation
\* stage; the stripped text goes on unchanged to normalization, bracket repair
\* and parse, and the call fails with MalformedJson exactly when that parse
\* fails.
C10_NoSpanPassedOn ==
  NoSpanReply =>
    /\ api.pc = "normalize" => api.cleanedText = StripFences(api.responseText.s)
    /\ ApiDone =>
         ((api.result.kind = "MalformedJson") <=>
            ~JsonParse(RepairBrackets(NormalizeStrings(
                StripFences(api.responseText.s)))).ok)

C10_Witness ==
  ApiDone /\ NoSpanReply /\ api.result.kind = "MalformedJson"
    /\ Count(api.responseText.s, "{") > 0

----------------------------------------------------------------------------
(* The service worker: handleAnalysis and saveToHistory, one step per      *)
(* suspension point                                                        *)

\* Concurrent handleAnalysis invocations
NumRuns == 2
\* analyzeCredibility requests received in a behaviour of Spec
MaxAnalyses == 2
\* Requests received in a behaviour of SpecSerial
MaxAppends == 25
\* Confirmed history clears in a behaviour
MaxClears == 1

\* if (... articleText.trim().length < 100)
MinContentLength == 100
\* history.slice(-20)
HistoryCap == 20

Runs == 1..NumRuns

\* A page text by its shape: leading whitespace, the body between the first
\* and the last non-whitespace character, trailing whitespace
Text(lead, body, trail) == [t |-> "text", lead |-> lead, body |-> body, trail |-> trail]

Length(text) == text.lead + text.body + text.trail

\* articleText.trim().length
TrimmedLength(text) == text.body

\* executeScript rejected; the fetch rejected
Rejected == [t |-> "rejected"]

\* What executeScript may deliver: null, "", or a text of at most 3000
\* characters
ExtractionResults ==
  <<Rejected, JNull, Text(0, 0, 0), Text(10, 95, 10), Text(0, 100, 0),
    Text(100, 2800, 100)>>

InsufficientNoTrim(articleText) ==
  articleText.t # "text" \/ Length(articleText) = 0
    \/ Length(articleText) < MinContentLength

\* !articleText || articleText.trim().length < 100
Insufficient(articleText) ==
  articleText.t # "text" \/ Length(articleText) = 0
    \/ TrimmedLength(articleText) < MinContentLength

\* tab.url, as url.split('/') cuts it
UrlOf(p) ==
  IF p % 2 = 1 THEN <<"https:", "", "a.example", "story">>
  ELSE <<"https:", "", "b.example", "post">>

\* url.split('/')[2]
Title(url) == url[3]

HistoryEntry(url, analysisData, now) ==
  [url |-> url, title |-> Title(url),
   score |-> Get(analysisData, K_score), timestamp |-> now]

TrimHistoryFirst(history) ==
  IF Len(history) > HistoryCap THEN SubSeq(history, 1, HistoryCap) ELSE history

\* history.slice(-20)
TrimHistory(history) ==
  IF Len(history) > HistoryCap
  THEN SubSeq(history, Len(history) - HistoryCap + 1, Len(history))
  ELSE history

\* result.analysisHistory || []
StoredHistory == Or(analysisHistory, JArr(<<>>)).a

ProceedsAlways(result) == TRUE

\* await callGeminiAPI(...) returned a record: the statements after it run
Proceeds(result) == result.kind = "ok"

\* What callGeminiAPI returned
RecordData(result) == IF result.kind = "ok" THEN result.data ELSE Undefined

ErrorResponse(kind) == [type |-> "error", error |-> kind]
DataResponse(data) == [type |-> "data", data |-> data]

\* fetches counts the requests this invocation sent to the assessment service
IdleRun ==
  [pc |-> "idle", url |-> <<>>, articleText |-> Undefined, apiKey |-> "",
   fetches |-> 0, analysisData |-> Failure("none"), history |-> <<>>,
   trimmedHistory |-> <<>>, responses |-> <<>>]

\* sendResponse(...); return
Respond(p, response) ==
  run' = [run EXCEPT ![p].pc = "done", ![p].responses = Append(@, response)]

\* onMessage: handleAnalysis(request.tabId, request.url, sendResponse) runs up
\* to its first await, inside extractArticleContent
StartRun(p, url) ==
  /\ run[p].pc \in {"idle", "done"}
  /\ started' = started + 1
  /\ run' = [run EXCEPT ![p] = [IdleRun EXCEPT !.pc = "extract", !.url = url]]

StartAnalysis(p, url, limit) ==
  /\ started < limit
  /\ StartRun(p, url)
  /\ UNCHANGED <<page, analysisHistory, geminiApiKey, clock, clears, appended,
                 popup, prior, api>>

\* executeScript settles: it rejects, or articleText is checked and the
\* storage.sync read is issued
ExtractDone(p, results) ==
  /\ run[p].pc = "extract"
  /\ \E i \in 1..Len(results) :
       LET text == results[i]
       IN  IF text.t = "rejected" THEN Respond(p, ErrorResponse("PageAccessDenied"))
           ELSE IF Insufficient(text)
             THEN run' = [run EXCEPT ![p].pc = "done", ![p].articleText = text,
                            ![p].responses = Append(@, ErrorResponse("InsufficientContent"))]
           ELSE run' = [run EXCEPT ![p].pc = "getKey", ![p].articleText = text]
  /\ UNCHANGED <<page, analysisHistory, geminiApiKey, clock, started, clears, appended,
                 popup, prior, api>>

\* storage.sync.get settles: without a key the run ends, with one
\* callGeminiAPI is entered and its fetch is issued
GetKeyDone(p) ==
  /\ run[p].pc = "getKey"
  /\ IF geminiApiKey = ""
     THEN Respond(p, ErrorResponse("MissingCredential"))
     ELSE run' = [run EXCEPT ![p].pc = "fetch", ![p].apiKey = geminiApiKey,
                             ![p].fetches = @ + 1]
  /\ UNCHANGED <<page, analysisHistory, geminiApiKey, clock, started, clears, appended,
                 popup, prior, api>>

\* What callGeminiAPI ends with on each of the ways the fetch may settle
ApiOutcomes(responses) ==
  [i \in 1..Len(responses) |->
     IF responses[i].t = "rejected" THEN Failure("NetworkError")
     ELSE CallGeminiAPI(responses[i].http)]

\* The fetch settles and callGeminiAPI runs to its end, with one of the given
\* outcomes; on a record saveToHistory is entered and its storage.local read
\* is issued
FetchDone(p, outcomes) ==
  /\ run[p].pc = "fetch"
  /\ \E i \in 1..Len(outcomes) :
       LET result == outcomes[i]
       IN  IF Proceeds(result)
           THEN run' = [run EXCEPT ![p].pc = "saveGet", ![p].analysisData = result]
           ELSE run' = [run EXCEPT ![p].pc = "done", ![p].analysisData = result,
                          ![p].responses = Append(@, ErrorResponse(result.kind))]
  /\ UNCHANGED <<page, analysisHistory, geminiApiKey, clock, started, clears, appended,
                 popup, prior, api>>

\* The storage.local.get callback: push, slice, and the write is issued
SaveGetDone(p) ==
  /\ run[p].pc = "saveGet"
  /\ LET entry == HistoryEntry(run[p].url, RecordData(run[p].analysisData), clock + 1)
         history == Append(StoredHistory, entry)
     IN  /\ run' = [run EXCEPT ![p].pc = "saveSet", ![p].history = history,
                               ![p].trimmedHistory = TrimHistory(history)]
         /\ appended' = [appended EXCEPT !.pushed = Append(@, entry)]
  /\ clock' = clock + 1
  /\ UNCHANGED <<page, analysisHistory, geminiApiKey, started, clears, popup,
                 prior, api>>

\* The write is applied and its callback resolves saveToHistory; then
\* sendResponse({ data: analysisData })
SaveSetDone(p) ==
  /\ run[p].pc = "saveSet"
  /\ analysisHistory' = JArr(run[p].trimmedHistory)
  /\ Respond(p, DataResponse(RecordData(run[p].analysisData)))
  /\ UNCHANGED <<page, geminiApiKey, clock, started, clears, appended, popup,
                 prior, api>>

\* popup.js, clear history, confirmed: storage.local.set({analysisHistory: []})
ClearHistory ==
  /\ clears < MaxClears
  /\ clears' = clears + 1
  /\ analysisHistory' = JArr(<<>>)
  /\ UNCHANGED <<page, geminiApiKey, run, clock, started, appended, popup,
                 prior, api>>

\* popup.js, save API key: storage.sync.set({geminiApiKey: apiKey})
SaveApiKey ==
  /\ geminiApiKey = ""
  /\ geminiApiKey' = "key-1"
  /\ UNCHANGED <<page, analysisHistory, run, clock, started, clears, appended,
                 popup, prior, api>>

----------------------------------------------------------------------------
(* Specifications of the service worker *)

\* A stored history of n earlier entries
InitialHistory(n) ==
  [i \in 1..n |->
     [url |-> <<"https:", "", "old.example", "news">>, title |-> "old.example",
      score |-> JNum(50), timestamp |-> i]]

Settled(http) == [t |-> "settled", http |-> http]

\* What the fetch may settle with in Spec
SampleOutcomes ==
  ApiOutcomes(
    <<Rejected,
      Settled(GoodResponse(Serialize(ExampleObject))),
      Settled(GoodResponse(<<"I", SP, "cannot", SP, "analyze", SP, "this", SP, "page">>)),
      Settled(HttpResponse(TRUE, "", "absent", "one", "MAX_TOKENS", "text", <<"{">>))>>)

InitPopupIdle ==
  /\ popup = <<>>
  /\ prior = <<>>
  /\ api = <<>>
  /\ page = <<>>

\* No analysis under way, over a stored history of one of the given lengths;
\* the length -1 stands for a fresh installation, where nothing was ever
\* stored
InitWorker(lengths) ==
  /\ run = [p \in Runs |-> IdleRun]
  /\ started = 0
  /\ clears = 0
  /\ \E n \in lengths :
       /\ analysisHistory = IF n < 0 THEN Undefined ELSE JArr(InitialHistory(n))
       /\ appended = [initial |-> InitialHistory(n), pushed |-> <<>>]
       /\ clock = IF n < 0 THEN 0 ELSE n

Init ==
  /\ InitWorker({-1, HistoryCap - 1, HistoryCap})
  /\ geminiApiKey = ""
  /\ InitPopupIdle


Next ==
  \/ \E p \in Runs :
       \/ StartAnalysis(p, UrlOf(p), MaxAnalyses)
       \/ ExtractDone(p, ExtractionResults)
       \/ GetKeyDone(p)
       \/ FetchDone(p, SampleOutcomes)
       \/ SaveGetDone(p)
       \/ SaveSetDone(p)
  \/ ClearHistory
  \/ SaveApiKey

\* Overlapping analyses, a popup clearing the history and saving the key
Spec == Init /\ [][Next]_vars

\* The inputs of the append that follows k earlier ones in SpecSerial
SerialResponse(k) ==
  Settled(GoodResponse(Serialize(
    MakeObject(JNum(IF k % 3 = 0 THEN 40 ELSE 82), JStr(<<"Well-sourced">>),
               Undefined, Undefined, Undefined))))

InitSerial ==
  /\ InitWorker(-1..HistoryCap)
  /\ geminiApiKey = "key-1"
  /\ InitPopupIdle

\* The invocation that serves every request of SpecSerial
SerialRun == 1

NextSerial ==
  \/ StartAnalysis(SerialRun, UrlOf(clock + 1), MaxAppends)
  \/ ExtractDone(SerialRun, <<Text(0, 100, 0)>>)
  \/ GetKeyDone(SerialRun)
  \/ FetchDone(SerialRun, ApiOutcomes(<<SerialResponse(clock)>>))
  \/ SaveGetDone(SerialRun)
  \/ SaveSetDone(SerialRun)

\* One analysis at a time, no clear: a sequence of saveToHistory appends
SpecSerial == InitSerial /\ [][NextSerial]_vars

----------------------------------------------------------------------------
(* Properties of the service worker *)

LastN(s, n) == IF Len(s) > n THEN SubSeq(s, Len(s) - n + 1, Len(s)) ELSE s

\* Every entry that was ever in the log or appended to it, in insertion order
AllAppended == appended.initial \o appended.pushed

NoWritePending == \A p \in Runs : run[p].pc # "saveSet"

\* C1 (SpecSerial): after any sequence of appends from a stored history of at
\* most 20 entries, the stored history has at most 20 entries and is exactly
\* the most recent (up to 20) entries, unaltered and in insertion order.
C1_BoundedFifo ==
  /\ Len(StoredHistory) <= HistoryCap
  /\ NoWritePending => StoredHistory = LastN(AllAppended, HistoryCap)

\* 25 appends to an empty log: entries 1-5 are gone, 6-25 are there in order
C1_Witness ==
  /\ appended.initial = <<>>
  /\ Len(appended.pushed) = 25
  /\ NoWritePending
  /\ StoredHistory = SubSeq(appended.pushed, 6, 25)

\* C2 (Spec): a failed analysis never writes a history entry.  The step that
\* sends an error response leaves the stored history as it is, and is taken
\* by a run that got no record and prepared no write; and the stored history
\* changes only by a clear or by the write of a run that holds a record.
C2_FailedNeverWrites ==
  [][ /\ \A p \in Runs :
           ( /\ run[p].pc # "done"
             /\ run'[p].pc = "done"
             /\ Last(run'[p].responses).type = "error" )
           => /\ analysisHistory' = analysisHistory
              /\ run[p].trimmedHistory = <<>>
              /\ run[p].analysisData.kind # "ok"
      /\ analysisHistory' # analysisHistory
           => \/ clears' = clears + 1
              \/ \E p \in Runs :
                   /\ run[p].pc = "saveSet"
                   /\ run[p].analysisData.kind = "ok"
                   /\ analysisHistory' = JArr(run[p].trimmedHistory)
    ]_vars

\* A run failed in the requester or the recovery, over a non-empty history
C2_Witness ==
  \E p \in Runs :
    /\ run[p].pc = "done"
    /\ run[p].fetches = 1
    /\ run[p].responses = <<ErrorResponse("MalformedJson")>>
    /\ Len(StoredHistory) > 0

Quiescent == \A p \in Runs : run[p].pc \in {"idle", "done"}

Arrangements(k) == {f \in [1..k -> 1..k] : \A i, j \in 1..k : f[i] = f[j] => i = j}

\* The histories that the appends and clears of the behaviour give when they
\* are applied one at a time, in any order
SerialOutcomes ==
  LET k == Len(appended.pushed)
      Arranged(f) == [i \in 1..k |-> appended.pushed[f[i]]]
  IN  IF clears = 0
      THEN {LastN(appended.initial \o Arranged(f), HistoryCap) : f \in Arrangements(k)}
      ELSE UNION {{LastN(SubSeq(Arranged(f), k - j + 1, k), HistoryCap) : j \in 0..k} :
                    f \in Arrangements(k)}

\* C3 (Spec): history updates are serialized: once every analysis has ended,
\* the stored history is the result of applying the appends of the successful
\* analyses and the clears one at a time in some order.
C3_Serialized == Quiescent => StoredHistory \in SerialOutcomes

\* C4 (Spec): a run sends a request to the assessment service only after it
\* found the extracted text to have a trimmed length of at least 100 and
\* found a stored credential; a run whose text is missing or shorter ends
\* with the insufficient-content error without any request; and no run sends
\* more than one request.
C4_FailFastGating ==
  \A p \in Runs :
    /\ run[p].fetches <= 1
    /\ run[p].fetches = 1 =>
         /\ run[p].articleText.t = "text"
         /\ TrimmedLength(run[p].articleText) >= MinContentLength
         /\ run[p].apiKey # ""
    /\ ( /\ run[p].pc = "done"
         /\ \/ run[p].articleText.t = "null"
            \/ /\ run[p].articleText.t = "text"
               /\ TrimmedLength(run[p].articleText) < MinContentLength )
       => /\ run[p].fetches = 0
          /\ run[p].responses = <<ErrorResponse("InsufficientContent")>>

\* A text of 115 characters of which 95 remain after trimming was turned down
C4_Witness ==
  \E p \in Runs :
    /\ run[p].pc = "done"
    /\ run[p].articleText = Text(10, 95, 10)
    /\ run[p].fetches = 0
    /\ geminiApiKey # ""

----------------------------------------------------------------------------
(* The popup: popup.js, one step per handler invocation, storage or        *)
(* messaging callback and timer                                            *)

\* Clicks on the analyze, settings, save, tab and clear buttons in a behaviour
MaxClicks == 2

\* The invocations of the analyze click handler; the message of invocation h
\* is served by the handleAnalysis invocation h
Handlers == Runs

\* String(v), as a template literal and the + operator apply it
StringOf(v) ==
  CASE v.t = "num" -> <<NumberAtom(v.n)>>
    [] v.t = "str" -> v.s
    [] v.t = "bool" -> IF v.b THEN <<"true">> ELSE <<"false">>
    [] v.t = "null" -> <<"null">>
    [] v.t = "undefined" -> <<"undefined">>

\* element.textContent = v: null and undefined give the empty text
TextContent(v) == IF v.t \in {"null", "undefined"} THEN <<>> ELSE StringOf(v)

\* v >= n for a number v; a text that is no number is never >= n
AtLeast(v, n) == v.t = "num" /\ v.n >= n

EscapeAtom(a) ==
  CASE a = "&" -> "&amp;"
    [] a = "<" -> "&lt;"
    [] a = ">" -> "&gt;"
    [] a = Quote -> "&quot;"
    [] a = "'" -> "&#039;"
    [] OTHER -> a

\* escapeHtml(text) of a string
EscapeHtml(s) == [i \in 1..Len(s) |-> EscapeAtom(s[i])]

Hidden == [hidden |-> TRUE]
Shown == [hidden |-> FALSE]

\* <input>.value by its shape: whitespace around the text that trim() leaves
InputValue(lead, text, trail) == [lead |-> lead, text |-> text, trail |-> trail]

TrimValue(value) == value.text

\* The document as popup.js finds it.  popup.html is not among the sources:
\* the result sections start hidden and empty (displayResults is what shows
\* and fills them), the loading indicator is off, the button is enabled and
\* the analysis tab is the current one.
InitDom ==
  [apiKeyInput |-> [value |-> InputValue(0, "", 0)],
   apiSection |-> Shown,
   status |-> [textContent |-> <<>>, className |-> <<"status">>],
   loading |-> [display |-> "none"],
   analyzeBtn |-> [disabled |-> FALSE],
   scoreSection |-> Hidden, tabs |-> Hidden,
   summarySection |-> Hidden, crossRefSection |-> Hidden,
   scoreNumber |-> <<>>,
   reliabilityBadge |-> [textContent |-> "", className |-> "reliability-badge"],
   summaryText |-> <<>>,
   crossRefContent |-> [found |-> 0, items |-> <<>>],
   politicalLeaning |-> <<>>,
   confidence |-> <<>>,
   historyList |-> [placeholder |-> FALSE, items |-> <<>>],
   currentTab |-> "analysis",
   analysisContent |-> Shown, historyContent |-> Hidden]

\* The score panel: the four result sections and the values they show
ScorePanel(dom) ==
  [scoreSection |-> dom.scoreSection, tabs |-> dom.tabs,
   summarySection |-> dom.summarySection, crossRefSection |-> dom.crossRefSection,
   scoreNumber |-> dom.scoreNumber, reliabilityBadge |-> dom.reliabilityBadge,
   summaryText |-> dom.summaryText, crossRefContent |-> dom.crossRefContent,
   politicalLeaning |-> dom.politicalLeaning, confidence |-> dom.confidence]

ShowStatus(dom, message, type) ==
  [dom EXCEPT !.status = [textContent |-> message, className |-> <<"status", type>>]]

HideStatus(dom) == [dom EXCEPT !.status.className = <<"status">>]

Badge(score) ==
  IF AtLeast(score, 70)
  THEN [textContent |-> "HIGH", className |-> "reliability-badge badge-high"]
  ELSE IF AtLeast(score, 40)
  THEN [textContent |-> "MEDIUM", className |-> "reliability-badge badge-medium"]
  ELSE [textContent |-> "LOW", className |-> "reliability-badge badge-low"]

\* The forEach body throws a TypeError: source is null, or escapeHtml gets
\* something without a replace method
SourceThrows(source) ==
  \/ source.t \in {"null", "undefined"}
  \/ Get(source, <<"title">>).t # "str"
  \/ Get(source, <<"source_url">>).t # "str"

SourceItem(source) ==
  [icon |-> IF AtLeast(Get(source, <<"corroboration_score">>), 70) THEN "check"
            ELSE IF AtLeast(Get(source, <<"corroboration_score">>), 40) THEN "warning"
            ELSE "cross",
   title |-> EscapeHtml(Get(source, <<"title">>).s),
   url |-> EscapeHtml(Get(source, <<"source_url">>).s),
   score |-> StringOf(Get(source, <<"corroboration_score">>))]

\* corroboration_analysis && corroboration_analysis.length > 0
HasSources(c) == (c.t = "arr" /\ Len(c.a) > 0) \/ (c.t = "str" /\ Len(c.s) > 0)

\* displayResults throws while it builds the source list
DisplayThrows(data) ==
  LET c == Get(data, K_corroboration)
  IN  HasSources(c) /\ (c.t = "str" \/ \E i \in 1..Len(c.a) : SourceThrows(c.a[i]))

\* displayResults(data): the document after it returned, or after it threw
DisplayResults(dom, data) ==
  LET score == Get(data, K_score)
      c == Get(data, K_corroboration)
      upToSummary ==
        [dom EXCEPT !.scoreSection = Shown, !.tabs = Shown,
                    !.summarySection = Shown, !.crossRefSection = Shown,
                    !.scoreNumber = TextContent(score),
                    !.reliabilityBadge = Badge(score),
                    !.summaryText = TextContent(Get(data, K_summary))]
  IN  IF DisplayThrows(data) THEN upToSummary
      ELSE [upToSummary EXCEPT
              !.crossRefContent =
                 IF HasSources(c)
                 THEN [found |-> Len(c.a),
                       items |-> [i \in 1..Len(c.a) |-> SourceItem(c.a[i])]]
                 ELSE [found |-> 0, items |-> <<"No corroborating sources found">>],
              !.politicalLeaning =
                 TextContent(Or(Get(data, K_leaning), JStr(<<"Neutral">>))),
              !.confidence =
                 IF Falsy(Get(data, K_confidence)) THEN <<"75", "%">>
                 ELSE StringOf(Get(data, K_confidence)) \o <<"%">>]

\* One history-item: the time shown is computed from item.timestamp
HistoryItem(item) ==
  [time |-> item.timestamp,
   title |-> IF item.title = "" THEN EscapeHtml(item.url) ELSE EscapeAtom(item.title),
   scoreColor |-> IF AtLeast(item.score, 70) THEN "#10B981"
                  ELSE IF AtLeast(item.score, 40) THEN "#F59E0B" ELSE "#EF4444",
   score |-> StringOf(item.score),
   url |-> item.url]

\* The loadHistory callback on the stored history: most recent first
RenderHistory(history) ==
  IF Len(history) = 0 THEN [placeholder |-> TRUE, items |-> <<>>]
  ELSE [placeholder |-> FALSE,
        items |-> [i \in 1..Len(history) |-> HistoryItem(history[Len(history) - i + 1])]]

\* An invocation of the click handler that has not been made yet
IdleHandler == [pc |-> "idle", outcome |-> "none", delivered |-> FALSE]

EndHandler(h, outcome) ==
  [popup.handler EXCEPT ![h].pc = "done", ![h].outcome = outcome]

\* The popup after its script ran: the key read of line 38 and the history
\* read of line 271 are under way
OpenedPopup ==
  [open |-> TRUE, dom |-> InitDom,
   handler |-> [h \in Handlers |-> IdleHandler],
   clicks |-> 0, loads |-> 1, keyLoad |-> TRUE,
   saving |-> <<>>, saveTimers |-> 0, clearing |-> 0, clearTimers |-> 0]

\* The popup after window.close(): nothing of it is left to run
ClosedPopup ==
  [OpenedPopup EXCEPT !.open = FALSE, !.loads = 0, !.keyLoad = FALSE]

\* chrome.storage.sync.get at load: a stored key fills the input and hides
\* the API section
KeyLoaded ==
  /\ popup.open /\ popup.keyLoad
  /\ popup' = [popup EXCEPT
       !.keyLoad = FALSE,
       !.dom = IF geminiApiKey # ""
               THEN [@ EXCEPT !.apiKeyInput.value = InputValue(0, geminiApiKey, 0),
                              !.apiSection = Hidden]
               ELSE @]
  /\ UNCHANGED <<page, analysisHistory, geminiApiKey, run, clock, started, clears,
                 appended, prior, api>>

\* settingsBtn click
ToggleSettings ==
  /\ popup.open /\ popup.clicks < MaxClicks
  /\ popup' = [popup EXCEPT !.clicks = @ + 1, !.dom.apiSection.hidden = ~@]
  /\ UNCHANGED <<page, analysisHistory, geminiApiKey, run, clock, started, clears,
                 appended, prior, api>>

\* collapseBtn click: window.close() ends this popup and its callbacks
CollapseClick ==
  /\ popup.open
  /\ popup' = ClosedPopup
  /\ prior' = [h \in Handlers |-> ScorePanel(InitDom)]
  /\ UNCHANGED <<page, analysisHistory, geminiApiKey, run, clock, started, clears,
                 appended, api>>

\* saveApiKeyBtn click on what the user typed: storage.sync.set is issued
SaveKeyClick(value) ==
  /\ popup.open /\ popup.clicks < MaxClicks
  /\ popup' = [popup EXCEPT
       !.clicks = @ + 1,
       !.saving = IF TrimValue(value) = "" THEN @ ELSE Append(@, TrimValue(value)),
       !.dom = IF TrimValue(value) = ""
               THEN ShowStatus([@ EXCEPT !.apiKeyInput.value = value],
                               <<"Please enter an API key">>, "error")
               ELSE [@ EXCEPT !.apiKeyInput.value = value]]
  /\ UNCHANGED <<page, analysisHistory, geminiApiKey, run, clock, started, clears,
                 appended, prior, api>>

\* The key is stored and the callback of storage.sync.set runs
SaveKeyDone ==
  /\ popup.open /\ popup.saving # <<>>
  /\ geminiApiKey' = Head(popup.saving)
  /\ popup' = [popup EXCEPT
       !.saving = Tail(@),
       !.saveTimers = @ + 1,
       !.dom = ShowStatus(@, <<"API key saved successfully!">>, "success")]
  /\ UNCHANGED <<page, analysisHistory, run, clock, started, clears, appended, prior, api>>

\* setTimeout(..., 1500) of the save callback
SaveKeyTimeout ==
  /\ popup.open /\ popup.saveTimers > 0
  /\ popup' = [popup EXCEPT
       !.saveTimers = @ - 1,
       !.dom = HideStatus([@ EXCEPT !.apiSection = Hidden])]
  /\ UNCHANGED <<page, analysisHistory, geminiApiKey, run, clock, started, clears,
                 appended, prior, api>>

\* loadHistory(): the storage.local read is issued
LoadHistory(pp) == [pp EXCEPT !.loads = @ + 1]

\* The callback of loadHistory's storage.local.get
LoadHistoryDone ==
  /\ popup.open /\ popup.loads > 0
  /\ popup' = [popup EXCEPT
       !.loads = @ - 1,
       !.dom.historyList = RenderHistory(StoredHistory)]
  /\ UNCHANGED <<page, analysisHistory, geminiApiKey, run, clock, started, clears,
                 appended, prior, api>>

\* A click on a tab button
SwitchTab(tabName) ==
  /\ popup.open /\ popup.clicks < MaxClicks
  /\ popup' =
       LET shown == [popup EXCEPT
                       !.clicks = @ + 1,
                       !.dom.currentTab = tabName,
                       !.dom.analysisContent.hidden = (tabName = "history"),
                       !.dom.historyContent.hidden = (tabName = "analysis")]
       IN  IF tabName = "history" THEN LoadHistory(shown) ELSE shown
  /\ UNCHANGED <<page, analysisHistory, geminiApiKey, run, clock, started, clears,
                 appended, prior, api>>

\* clearHistoryBtn click, confirmed: storage.local.set is issued
ClearClick ==
  /\ popup.open /\ popup.clicks < MaxClicks
  /\ clears + popup.clearing < MaxClears
  /\ popup' = [popup EXCEPT !.clicks = @ + 1, !.clearing = @ + 1]
  /\ UNCHANGED <<page, analysisHistory, geminiApiKey, run, clock, started, clears,
                 appended, prior, api>>

\* The empty history is stored and the callback of storage.local.set runs
ClearDone ==
  /\ popup.open /\ popup.clearing > 0
  /\ analysisHistory' = JArr(<<>>)
  /\ clears' = clears + 1
  /\ popup' = LoadHistory([popup EXCEPT
       !.clearing = @ - 1,
       !.clearTimers = @ + 1,
       !.dom = ShowStatus(@, <<"History cleared">>, "success")])
  /\ UNCHANGED <<page, geminiApiKey, run, clock, started, appended, prior, api>>

\* setTimeout(() => hideStatus(), 2000)
ClearTimeout ==
  /\ popup.open /\ popup.clearTimers > 0
  /\ popup' = [popup EXCEPT !.clearTimers = @ - 1, !.dom = HideStatus(@)]
  /\ UNCHANGED <<page, analysisHistory, geminiApiKey, run, clock, started, clears,
                 appended, prior, api>>

\* analyzeBtn click: a disabled button gets no click; the handler runs up to
\* its storage.sync read.  prior keeps the score panel as it was at the click.
AnalyzeClick ==
  /\ popup.open
  /\ ~popup.dom.analyzeBtn.disabled
  /\ popup.clicks < MaxClicks
  /\ \E h \in Handlers :
       /\ popup.handler[h].pc \in {"idle", "done"}
       /\ \A g \in Handlers : g < h => popup.handler[g].pc \notin {"idle", "done"}
       /\ popup' = [popup EXCEPT
            !.clicks = @ + 1,
            !.handler[h] = [IdleHandler EXCEPT !.pc = "getKey"]]
       /\ prior' = [prior EXCEPT ![h] = ScorePanel(popup.dom)]
  /\ UNCHANGED <<page, analysisHistory, geminiApiKey, run, clock, started, clears,
                 appended, api>>

\* The key check; with a key the loading state is shown and tabs.query issued
AnalyzeKeyDone(h) ==
  /\ popup.open /\ popup.handler[h].pc = "getKey"
  /\ popup' =
       IF geminiApiKey = ""
       THEN [popup EXCEPT
               !.handler = EndHandler(h, "noKey"),
               !.dom = [ShowStatus(@, <<"Please save your API key first">>, "error")
                          EXCEPT !.apiSection = Shown]]
       ELSE [popup EXCEPT
               !.handler[h].pc = "query",
               !.dom = ShowStatus(
                         [@ EXCEPT !.loading.display = "block",
                                   !.scoreSection = Hidden, !.tabs = Hidden,
                                   !.summarySection = Hidden,
                                   !.crossRefSection = Hidden,
                                   !.analyzeBtn.disabled = TRUE],
                         <<"Extracting article content...">>, "info")]
  /\ UNCHANGED <<page, analysisHistory, geminiApiKey, run, clock, started, clears,
                 appended, prior, api>>

\* The catch block of the click handler
Caught(h, message) ==
  [popup EXCEPT
     !.handler = EndHandler(h, "exception"),
     !.dom = ShowStatus([@ EXCEPT !.loading.display = "none",
                                  !.analyzeBtn.disabled = FALSE],
                        <<"Error: ", message>>, "error")]

\* What tabs.query may settle with
TabResults(h) == <<Rejected, [t |-> "tab", url |-> UrlOf(h)]>>

\* tabs.query settles: it rejects and the catch block runs, or sendMessage is
\* called; the message reaches the service worker, which starts
\* handleAnalysis, or there is no receiving end
AnalyzeQueryDone(h) ==
  /\ popup.open /\ popup.handler[h].pc = "query"
  /\ \E i \in 1..Len(TabResults(h)), delivered \in BOOLEAN :
       LET tab == TabResults(h)[i]
       IN  IF tab.t = "rejected"
           THEN /\ delivered
                /\ popup' = Caught(h, "error.message")
                /\ UNCHANGED <<run, started>>
           ELSE /\ popup' = [popup EXCEPT !.handler[h].pc = "sent",
                                          !.handler[h].delivered = delivered]
                /\ IF delivered THEN StartRun(h, tab.url)
                   ELSE UNCHANGED <<run, started>>
  /\ UNCHANGED <<page, analysisHistory, geminiApiKey, clock, clears, appended, prior, api>>

\* The sendMessage callback: with lastError set, or with the response of
\* handleAnalysis
AnalyzeCallback(h) ==
  /\ popup.open /\ popup.handler[h].pc = "sent"
  /\ LET reset == [popup.dom EXCEPT !.loading.display = "none",
                                    !.analyzeBtn.disabled = FALSE]
     IN  IF ~popup.handler[h].delivered
         THEN popup' = [popup EXCEPT
                !.handler = EndHandler(h, "lastError"),
                !.dom = ShowStatus(reset, <<"Error: ", "lastError.message">>, "error")]
         ELSE /\ run[h].pc = "done"
              /\ LET response == run[h].responses[1]
                 IN  IF response.type = "error"
                     THEN popup' = [popup EXCEPT
                            !.handler = EndHandler(h, "error"),
                            !.dom = ShowStatus(reset, <<"Error: ", response.error>>, "error")]
                     ELSE IF DisplayThrows(response.data)
                     THEN popup' = [popup EXCEPT
                            !.handler = EndHandler(h, "threw"),
                            !.dom = DisplayResults(reset, response.data)]
                     ELSE popup' = LoadHistory([popup EXCEPT
                            !.handler = EndHandler(h, "ok"),
                            !.dom = HideStatus(DisplayResults(reset, response.data))])
  /\ UNCHANGED <<page, analysisHistory, geminiApiKey, run, clock, started, clears,
                 appended, prior, api>>

----------------------------------------------------------------------------
(* Specification of the popup with its service worker *)

InitPopup ==
  /\ popup = OpenedPopup
  /\ prior = [h \in Handlers |-> ScorePanel(InitDom)]
  /\ api = <<>>
  /\ page = <<>>
  /\ InitWorker({-1})
  /\ geminiApiKey \in {"", "key-1"}

FullObject ==
  MakeObject(JNum(82), JStr(<<"Well-sourced">>), JNum(90), JStr(<<"Left">>),
             JArr(<<Source1>>))

PopupOutcomes ==
  ApiOutcomes(
    <<Settled(GoodResponse(Serialize(ExampleObject))),
      Settled(GoodResponse(Serialize(FullObject))),
      Settled(GoodResponse(<<"I", SP, "cannot", SP, "analyze", SP, "this", SP, "page">>))>>)

NextPopup ==
  \/ KeyLoaded
  \/ ToggleSettings
  \/ CollapseClick
  \/ \E text \in {"", "key-2"} : SaveKeyClick(InputValue(1, text, 1))
  \/ SaveKeyDone
  \/ SaveKeyTimeout
  \/ LoadHistoryDone
  \/ \E tabName \in {"analysis", "history"} : SwitchTab(tabName)
  \/ ClearClick
  \/ ClearDone
  \/ ClearTimeout
  \/ AnalyzeClick
  \/ \E h \in Handlers :
       \/ AnalyzeKeyDone(h)
       \/ AnalyzeQueryDone(h)
       \/ AnalyzeCallback(h)
  \/ \E p \in Runs :
       \/ ExtractDone(p, <<Text(0, 100, 0)>>)
       \/ GetKeyDone(p)
       \/ FetchDone(p, PopupOutcomes)
       \/ SaveGetDone(p)
       \/ SaveSetDone(p)

SpecPopup == InitPopup /\ [][NextPopup]_vars

----------------------------------------------------------------------------
(* Properties of the popup *)

\* A result is on display: the four result sections are visible
Displayed(panel) ==
  /\ ~panel.scoreSection.hidden /\ ~panel.tabs.hidden
  /\ ~panel.summarySection.hidden /\ ~panel.crossRefSection.hidden

Failed(h) ==
  /\ popup.handler[h].pc = "done"
  /\ popup.handler[h].outcome \in {"noKey", "exception", "lastError", "error"}

\* C5 (SpecPopup): a failed analysis leaves the score panel untouched: when a
\* result was on display at the click and the analysis, the only one made
\* since, ended in an error, the score panel shows the same visible state and
\* values as at the click.
C5_PanelUntouchedOnFailure ==
  \A h \in Handlers :
    ( /\ popup.open
      /\ Failed(h)
      /\ \A g \in Handlers \ {h} : popup.handler[g].pc = "idle"
      /\ Displayed(prior[h]) )
    => ScorePanel(popup.dom) = prior[h]

\* The analysis of handler h is in flight: it passed the key check and
\* neither its sendMessage callback nor its catch block has run
InFlight(h) == popup.handler[h].pc \in {"query", "sent"}

\* C12 (SpecPopup): while an analysis of the popup is in flight the analyze
\* button is disabled, so the popup never has two analyses in flight; once
\* none is in flight, on whichever path the last one completed, the button is
\* enabled and the loading indicator hidden; handleAnalysis sends exactly
\* one response for every request it has finished and none before.
C12_DisabledUntilCompletion ==
  /\ popup.open =>
       /\ \A h \in Handlers : InFlight(h) => popup.dom.analyzeBtn.disabled
       /\ Cardinality({h \in Handlers : InFlight(h)}) <= 1
       /\ (\A h \in Handlers : ~InFlight(h)) =>
            /\ ~popup.dom.analyzeBtn.disabled
            /\ popup.dom.loading.display = "none"
  /\ \A p \in Runs :
       Len(run[p].responses) = IF run[p].pc = "done" THEN 1 ELSE 0

----------------------------------------------------------------------------
(* The function extractArticleContent injects into the page *)

\* How many of the selectors match an element in a document drawn below
MaxMatched == 3

\* articleText.substring(0, 3000)
MaxExcerpt == 3000

Selectors ==
  <<"article", "[role=article]", "main article", ".article-content",
    ".post-content", ".entry-content", "main", ".content">>

\* A text of the page by its shape and by the node it is the innerText of;
\* the empty string is the same string whatever node it comes from
TextOf(node, lead, body, trail) ==
  [t |-> "text", lead |-> lead, body |-> body, trail |-> trail,
   node |-> IF lead + body + trail = 0 THEN "" ELSE node]

\* let articleText = ''
EmptyText == TextOf("", 0, 0, 0)

\* The results of the eight querySelector calls, from the i-th on, with at
\* most left of them finding an element: null, or an element.  The innerText
\* of an element is empty, 99 characters between whitespace, 100 characters,
\* or more than the cap; a class selector can also find an element that is no
\* HTMLElement (an SVG node), which has no innerText at all.
RECURSIVE MatchesFrom(_, _)
MatchesFrom(i, left) ==
  IF i > Len(Selectors) THEN {<<>>}
  ELSE LET node == Selectors[i]
           innerTexts ==
             {EmptyText, TextOf(node, 5, 99, 5), TextOf(node, 2, 100, 2),
              TextOf(node, 0, 3200, 10)}
               \cup (IF i \in {4, 5, 6, 8} THEN {Undefined} ELSE {})
       IN {<<JNull>> \o m : m \in MatchesFrom(i + 1, left)}
            \cup (IF left = 0 THEN {}
                  ELSE {<<[t |-> "element", innerText |-> text]>> \o m :
                          text \in innerTexts, m \in MatchesFrom(i + 1, left - 1)})

\* An HTML document as the function sees it: the querySelector results and
\* document.body.innerText.  An element found by 'main article' is an article
\* inside a main, so 'article' and 'main' find an element as well.
Documents ==
  {[match |-> m, body |-> b] :
     m \in {n \in MatchesFrom(1, MaxMatched) :
              n[3].t = "element" => n[1].t = "element" /\ n[7].t = "element"},
     b \in {EmptyText, TextOf("body", 1, 60, 1), TextOf("body", 3, 2990, 20),
            TextOf("body", 0, 4000, 0)}}

\* text.substring(0, n)
Substring(text, n) ==
  LET lead == IF text.lead < n THEN text.lead ELSE n
      body == IF text.body < n - lead THEN text.body ELSE n - lead
      trail == IF text.trail < n - lead - body THEN text.trail ELSE n - lead - body
  IN TextOf(text.node, lead, body, trail)

\* One pass of the for loop: querySelector, and on an element the
\* assignment and the break
ExtractQuery ==
  /\ page.pc = "loop"
  /\ LET element == page.document.match[page.selector] IN
       IF element.t = "element"
       THEN page' = [page EXCEPT !.articleText = element.innerText,
                                 !.pc = "fallback"]
       ELSE page' = [page EXCEPT !.selector = @ + 1,
                                 !.pc = IF page.selector = Len(Selectors)
                                        THEN "fallback" ELSE "loop"]
  /\ UNCHANGED <<analysisHistory, geminiApiKey, run, clock, started, clears,
                 appended, popup, prior, api>>

\* if (!articleText || articleText.trim().length < 100) articleText = body text
ExtractFallback ==
  /\ page.pc = "fallback"
  /\ page' = [page EXCEPT !.articleText = IF Insufficient(page.articleText)
                                          THEN page.document.body ELSE @,
                          !.pc = "return"]
  /\ UNCHANGED <<analysisHistory, geminiApiKey, run, clock, started, clears,
                 appended, popup, prior, api>>

\* return articleText.substring(0, 3000)
ExtractReturn ==
  /\ page.pc = "return"
  /\ page' = [page EXCEPT !.result = Substring(page.articleText, MaxExcerpt),
                          !.pc = "done"]
  /\ UNCHANGED <<analysisHistory, geminiApiKey, run, clock, started, clears,
                 appended, popup, prior, api>>

InitExtract ==
  /\ InitOthers
  /\ api = <<>>
  /\ \E document \in Documents :
       page = [pc |-> "loop", document |-> document, selector |-> 1,
               articleText |-> EmptyText, result |-> Undefined]

NextExtract ==
  \/ ExtractQuery
  \/ ExtractFallback
  \/ ExtractReturn

\* The injected function over any of the documents
SpecExtract == InitExtract /\ [][NextExtract]_vars

----------------------------------------------------------------------------
(* Properties of the injected function, checked under SpecExtract *)

\* The i-th selector finds an element whose text is not empty
NonEmptyAt(document, i) ==
  /\ document.match[i].t = "element"
  /\ document.match[i].innerText.t = "text"
  /\ Length(document.match[i].innerText) > 0

\* The text of the first selector whose element has non-empty text
FirstNonEmpty(document) ==
  IF \E i \in 1..Len(Selectors) : NonEmptyAt(document, i)
  THEN LET i == CHOOSE j \in 1..Len(Selectors) :
                  /\ NonEmptyAt(document, j)
                  /\ \A k \in 1..(j - 1) : ~NonEmptyAt(document, k)
       IN document.match[i].innerText
  ELSE EmptyText

\* C11: the function returns the first 3000 characters of the text of the
\* first selector whose element has non-empty text, an earlier element with
\* empty text not stopping the search, or of the whole page's text exactly
\* when there is no such selector or that text has fewer than 100 trimmed
\* characters.
C11_FirstNonEmptySelected ==
  page.pc = "done" =>
    LET chosen == FirstNonEmpty(page.document)
        final == IF TrimmedLength(chosen) < MinContentLength
                 THEN page.document.body ELSE chosen
    IN page.result = Substring(final, MaxExcerpt)

====
